---- MODULE Spec2Model ----
(***************************************************************************)
(* Model of tools/prepare_release.py, the Flexifi release preparation      *)
(* pipeline: main() parses the command line, then runs six named steps in  *)
(* a fixed order, collects the names of the steps that returned a false    *)
(* value, prints a summary and exits.                                      *)
(*                                                                         *)
(* The file system, the command line and the behaviour of the external     *)
(* commands are the inputs.  A Python exception that no handler catches    *)
(* unwinds main(): the interpreter prints a traceback and exits with       *)
(* status 1.                                                               *)
(***************************************************************************)
EXTENDS Integers, Sequences, FiniteSets, TLC

VARIABLES
    argv,            \* sys.argv[1:]
    present,         \* required paths other than library.json that exist
    unsearchable,    \* a directory without search permission, or ""
    manifest,        \* library.json: [kind, mode, format, pairs]
    header,          \* src/generated/web_assets.h: [exists, size]
    impl,            \* src/generated/web_assets.cpp: [exists, size]
    notes,           \* RELEASE_NOTES.md exists
    temp,            \* temporary files in the tree
    pc,              \* "start", "loop", "summary", "exited"
    version,         \* main's local `version`
    i,               \* position of the for loop in `steps`
    failed_steps,    \* main's local `failed_steps`
    invoked,         \* history: names of the steps whose function was called
    results,         \* history: the value each called function returned
    missing_printed, \* history: paths printed by validate_structure
    asset_reason,    \* history: message printed by validate_generated_assets
    manifest_before, \* history: library.json when update_version was entered
    access,          \* history: <<step name, path, mode>> file accesses
    reported,        \* step names printed under "Failed steps:"
    summary,         \* "none", "failed", "success"
    raised,          \* exception that left main(), or ""
    exitStatus,      \* process exit status, NoStatus while running
    runs             \* history: results of repeated validate_structure calls

vars == <<argv, present, unsearchable, manifest, header, impl, notes, temp,
          pc, version, i, failed_steps, invoked, results, missing_printed,
          asset_reason, manifest_before, access, reported, summary, raised,
          exitStatus, runs>>

fsvars == <<present, unsearchable, manifest, header, impl, notes, temp>>

-----------------------------------------------------------------------------
(* Bounds of the model *)

MaxHeaderSize == 1001
MaxImplSize == 501
MaxRuns == 2

-----------------------------------------------------------------------------
(* Values *)

None == "<None>"
NoStatus == 0 - 1

MANIFEST == "library.json"
HEADER == "src/generated/web_assets.h"
IMPL == "src/generated/web_assets.cpp"
NOTES == "RELEASE_NOTES.md"

\* A slip: a generated file listed among the required paths.
required_files_with_header ==
    << "library.json",
       "src/Flexifi.h",
       "src/Flexifi.cpp",
       "src/TemplateManager.h",
       "src/TemplateManager.cpp",
       "src/StorageManager.h",
       "src/StorageManager.cpp",
       "src/PortalWebServer.h",
       "src/PortalWebServer.cpp",
       "src/FlexifiParameter.h",
       "src/FlexifiParameter.cpp",
       "README.md",
       "examples/basic_usage/basic_usage.ino",
       "examples/advanced_callbacks/advanced_callbacks.ino",
       "examples/state_machine/state_machine.ino",
       "src/generated/web_assets.h" >>

required_files ==
    << "library.json",
       "src/Flexifi.h",
       "src/Flexifi.cpp",
       "src/TemplateManager.h",
       "src/TemplateManager.cpp",
       "src/StorageManager.h",
       "src/StorageManager.cpp",
       "src/PortalWebServer.h",
       "src/PortalWebServer.cpp",
       "src/FlexifiParameter.h",
       "src/FlexifiParameter.cpp",
       "README.md",
       "examples/basic_usage/basic_usage.ino",
       "examples/advanced_callbacks/advanced_callbacks.ino",
       "examples/state_machine/state_machine.ino" >>

Range(s) == {s[k] : k \in 1..Len(s)}

RequiredSet == Range(required_files)

HeaderMin == 1000
ImplMin == 500

temp_files == << "__pycache__", "*.pyc", ".DS_Store" >>

steps ==
    << "Validating package structure",
       "Embedding web assets",
       "Validating generated assets",
       "Updating version",
       "Creating release notes",
       "Cleaning up" >>

-----------------------------------------------------------------------------
(* The file system as the script sees it *)

\* Paths below a directory; a directory without search permission makes
\* os.stat of every path below it fail with EACCES.
Under(dir) ==
    IF dir = "src/generated" THEN {HEADER, IMPL}
    ELSE IF dir = "examples/state_machine"
         THEN {"examples/state_machine/state_machine.ino"}
         ELSE {}

OnDisk(p) ==
    IF p = MANIFEST THEN manifest.kind # "absent"
    ELSE IF p = HEADER THEN header.exists
    ELSE IF p = IMPL THEN impl.exists
    ELSE IF p = NOTES THEN notes
    ELSE p \in present

\* pathlib.Path.exists(): os.stat, where an OSError whose errno is ENOENT,
\* ENOTDIR, EBADF or ELOOP means False.  Any other OSError (EACCES) is
\* re-raised by the pathlib of Python 3.8 to 3.13 and means False in later
\* ones; `propagates` is which of the two the interpreter does.
Exists(p, propagates) ==
    IF p \in Under(unsearchable)
    THEN (IF propagates THEN "raise" ELSE "false")
    ELSE (IF OnDisk(p) THEN "true" ELSE "false")

\* What a step function does: the value it returns, or the exception that
\* leaves it (exc # "").
Returned(b) == [exc |-> "", ret |-> b]
Raised(e) == [exc |-> e, ret |-> FALSE]

-----------------------------------------------------------------------------
(* validate_structure *)

\* A slip: only the first missing path is kept.
missing_files_append_first(missing_files, file) ==
    IF missing_files = <<>> THEN <<file>> ELSE missing_files

missing_files_append(missing_files, file) == Append(missing_files, file)

\* The loop over required_files from position k on.
RECURSIVE ScanRequired(_, _, _)
ScanRequired(k, missing_files, propagates) ==
    IF k > Len(required_files)
    THEN [exc |-> "", missing_files |-> missing_files,
          checked |-> Range(required_files)]
    ELSE LET file == required_files[k]
             e == Exists(file, propagates)
         IN  IF e = "raise"
             THEN [exc |-> "PermissionError", missing_files |-> missing_files,
                   checked |-> {required_files[j] : j \in 1..k}]
             ELSE ScanRequired(k + 1,
                               IF e = "false"
                               THEN missing_files_append(missing_files, file)
                               ELSE missing_files,
                               propagates)

validate_structure(propagates) ==
    LET scan == ScanRequired(1, <<>>, propagates)
    IN  [exc |-> scan.exc,
         ret |-> scan.exc = "" /\ scan.missing_files = <<>>,
         printed |-> IF scan.exc = "" THEN scan.missing_files ELSE <<>>,
         checked |-> scan.checked]

-----------------------------------------------------------------------------
(* run_command *)

\* subprocess.run(cmd, shell=True, check=True, ...): "exit0" returns,
\* "nonzero" raises CalledProcessError, which run_command catches, and
\* "oserror" is the shell not being started (fork or exec of /bin/sh fails),
\* an OSError that run_command does not catch.
CommandOutcomes == {"exit0", "nonzero", "oserror"}

run_command(outcome) ==
    IF outcome = "exit0" THEN Returned(TRUE)
    ELSE IF outcome = "nonzero" THEN Returned(FALSE)
    ELSE Raised("OSError")

-----------------------------------------------------------------------------
(* embed_assets *)

embed_assets(outcome) == run_command(outcome)

-----------------------------------------------------------------------------
(* validate_generated_assets *)

\* A slip: a file of exactly the least size is refused.
HeaderTooSmall_inclusive(header_size) == header_size <= HeaderMin

HeaderTooSmall(header_size) == header_size < HeaderMin

ImplTooSmall(impl_size) == impl_size < ImplMin

validate_generated_assets(propagates) ==
    LET h == Exists(HEADER, propagates)
        c == Exists(IMPL, propagates)
    IN  IF h = "raise"
        THEN [exc |-> "PermissionError", ret |-> FALSE, printed |-> "",
              checked |-> {HEADER}]
        ELSE IF h = "false"
        THEN [exc |-> "", ret |-> FALSE, printed |-> "Missing web_assets.h",
              checked |-> {HEADER}]
        ELSE IF c = "raise"
        THEN [exc |-> "PermissionError", ret |-> FALSE, printed |-> "",
              checked |-> {HEADER, IMPL}]
        ELSE IF c = "false"
        THEN [exc |-> "", ret |-> FALSE, printed |-> "Missing web_assets.cpp",
              checked |-> {HEADER, IMPL}]
        ELSE IF HeaderTooSmall(header.size)
        THEN [exc |-> "", ret |-> FALSE, printed |-> "web_assets.h too small",
              checked |-> {HEADER, IMPL}]
        ELSE IF ImplTooSmall(impl.size)
        THEN [exc |-> "", ret |-> FALSE, printed |-> "web_assets.cpp too small",
              checked |-> {HEADER, IMPL}]
        ELSE [exc |-> "", ret |-> TRUE, printed |-> "Generated assets validated",
              checked |-> {HEADER, IMPL}]

-----------------------------------------------------------------------------
(* update_version *)

\* dict item assignment: an existing key keeps its place and takes the new
\* value, a new key goes last.
DictSet(d, key, value) ==
    IF \E j \in 1..Len(d) : d[j][1] = key
    THEN [j \in 1..Len(d) |-> IF d[j][1] = key THEN <<key, value>> ELSE d[j]]
    ELSE Append(d, <<key, value>>)

\* json.load of a document that is a JSON object: the members in order, a
\* repeated name keeping its last value.
RECURSIVE json_load(_)
json_load(pairs) ==
    IF pairs = <<>> THEN <<>>
    ELSE LET front == SubSeq(pairs, 1, Len(pairs) - 1)
             last == pairs[Len(pairs)]
         IN  DictSet(json_load(front), last[1], last[2])

\* json.dump(library_config, f, indent=4) into the file opened with "w".
json_dump(library_config, old) ==
    [kind |-> "object", mode |-> old.mode, format |-> "indent4",
     pairs |-> library_config]

\* The file after open(..., "w") truncated it and a write failed.
Truncated(old) ==
    [kind |-> "partial", mode |-> old.mode, format |-> "indent4",
     pairs |-> <<>>]

\* A slip: a new document holding only the version.
library_config_set_only(library_config, v) == <<<<"version", v>>>>

library_config_set(library_config, v) == DictSet(library_config, "version", v)

\* The value of a key of a loaded document, None when it has no such key.
DictGet(d, key) ==
    IF \E j \in 1..Len(d) : d[j][1] = key
    THEN (CHOOSE x \in {d[j][2] : j \in {n \in 1..Len(d) : d[n][1] = key}} : TRUE)
    ELSE None

DictKeys(d) == {d[j][1] : j \in 1..Len(d)}

\* `not version`
Falsy(v) == v = None \/ v = ""

\* writeFault: a write, flush or close of the file opened with "w" fails
\* (ENOSPC, EFBIG, EIO).
update_version(v, writeFault) ==
    IF Falsy(v)
    THEN [exc |-> "", ret |-> TRUE, manifest |-> manifest, accessed |-> {}]
    ELSE IF manifest.kind = "absent" \/ manifest.mode = "none"
    THEN [exc |-> "", ret |-> FALSE, manifest |-> manifest,
          accessed |-> {"read"}]
    ELSE IF manifest.kind \in {"malformed", "partial", "nonobject"}
    THEN [exc |-> "", ret |-> FALSE, manifest |-> manifest,
          accessed |-> {"read"}]
    ELSE IF manifest.mode = "r"
    THEN [exc |-> "", ret |-> FALSE, manifest |-> manifest,
          accessed |-> {"read", "write"}]
    ELSE IF writeFault
    THEN [exc |-> "", ret |-> FALSE, manifest |-> Truncated(manifest),
          accessed |-> {"read", "write"}]
    ELSE [exc |-> "", ret |-> TRUE,
          manifest |-> json_dump(library_config_set(json_load(manifest.pairs), v),
                                 manifest),
          accessed |-> {"read", "write"}]

-----------------------------------------------------------------------------
(* create_release_notes *)

create_release_notes(propagates) ==
    LET e == Exists(NOTES, propagates)
    IN  IF e = "raise" THEN Raised("PermissionError") ELSE Returned(e = "true")

-----------------------------------------------------------------------------
(* cleanup_generated_files *)

PycNames == {"embed_assets.cpython-311.pyc"}

TempNames == {"__pycache__", ".DS_Store"} \cup PycNames

\* The last component of the paths whose accesses the model follows.
Basename(p) ==
    IF p = MANIFEST THEN "library.json"
    ELSE IF p = HEADER THEN "web_assets.h"
    ELSE IF p = IMPL THEN "web_assets.cpp"
    ELSE p

\* find's -name test on the last component of a path.
NameMatches(pattern, name) ==
    IF pattern = "*.pyc" THEN name \in PycNames ELSE name = pattern

\* find . -name '<pattern>' -delete that exits 0 removed every match.
FindDelete(pattern, names) == {n \in names : ~NameMatches(pattern, n)}

\* The loop over temp_files from position k on; run_command's return value
\* is dropped, an exception leaving it ends the loop.
RECURSIVE CleanupFrom(_, _, _)
CleanupFrom(k, names, outcomes) ==
    IF k > Len(temp_files)
    THEN [exc |-> "", ret |-> TRUE, names |-> names]
    ELSE LET r == run_command(outcomes[k])
         IN  IF r.exc # ""
             THEN [exc |-> r.exc, ret |-> FALSE, names |-> names]
             ELSE CleanupFrom(k + 1,
                              IF r.ret THEN FindDelete(temp_files[k], names)
                                       ELSE names,
                              outcomes)

cleanup_generated_files(names, outcomes) == CleanupFrom(1, names, outcomes)

-----------------------------------------------------------------------------
(* main *)

\* A slip: the value is taken whatever the flag before it is.
ParseArgs_any_flag(a) == IF Len(a) > 2 THEN a[3] ELSE None

\* argv is sys.argv: argv[1] is the script, argv[2] is Python's sys.argv[1].
ParseArgs(a) ==
    IF Len(a) > 1
    THEN (IF a[2] = "--version" /\ Len(a) > 2 THEN a[3] ELSE None)
    ELSE None

failed_steps_after(failed, step_name, ok) ==
    IF ~ok THEN Append(failed, step_name) ELSE failed

\* A slip: the loop stops at the first step that fails.
LoopNext_break(k, ok) == IF ok THEN k + 1 ELSE Len(steps) + 1

\* The for loop goes on to the next step whatever the step returned.
LoopNext(k, ok) == k + 1

ExitStatus(failed) == IF failed # <<>> THEN 1 ELSE 0

-----------------------------------------------------------------------------
(* Inputs *)

File(size) == [exists |-> TRUE, size |-> size]
NoFile == [exists |-> FALSE, size |-> 0]

Object(pairs, mode, format) ==
    [kind |-> "object", mode |-> mode, format |-> format, pairs |-> pairs]

Other(kind) == [kind |-> kind, mode |-> "rw", format |-> "author", pairs |-> <<>>]

V100 == <<"version", "1.0.0">>
OtherX == <<"other", "x">>

Manifests ==
    { Other("absent"), Other("malformed"), Other("nonobject"),
      Object(<<V100, OtherX>>, "rw", "author"),
      Object(<<OtherX>>, "rw", "author"),
      Object(<<V100, OtherX, <<"version", "0.9.0">> >>, "rw", "author"),
      Object(<<V100, OtherX>>, "r", "author"),
      Object(<<V100, OtherX>>, "none", "author") }

Script == "tools/prepare_release.py"

Argvs ==
    { <<Script>>,
      <<Script, "--version">>,
      <<Script, "--version", "1.2.0">>,
      <<Script, "--version", "">>,
      <<Script, "-v", "1.2.0">>,
      <<Script, "--version", "1.2.0", "--dry-run">> }

\* The sets of required paths that a run of the whole pipeline may lack.
MissingSamples == {{}, {"src/Flexifi.cpp"}}

\* The generated files <<web_assets.h, web_assets.cpp>> before a run of the
\* whole pipeline.
AssetSamples ==
    { <<NoFile, NoFile>>,
      <<File(HeaderMin), NoFile>>,
      <<File(HeaderMin - 1), File(ImplMin)>>,
      <<File(HeaderMin), File(ImplMin - 1)>>,
      <<File(HeaderMin), File(ImplMin)>> }

\* What the asset generation command (tools/embed_assets.py) may leave in
\* src/generated: the files as they were, or both files written anew.
BuildOutputs(h, c, outcome) ==
    IF outcome = "exit0"
    THEN {<<h, c>>, <<File(MaxHeaderSize), File(MaxImplSize)>>}
    ELSE {<<h, c>>}

HistoryInit ==
    /\ pc = "start"
    /\ version = None
    /\ i = 1
    /\ failed_steps = <<>>
    /\ invoked = <<>>
    /\ results = <<>>
    /\ missing_printed = <<>>
    /\ asset_reason = ""
    /\ manifest_before = manifest
    /\ access = {}
    /\ reported = <<>>
    /\ summary = "none"
    /\ raised = ""
    /\ exitStatus = NoStatus
    /\ runs = <<>>

Init ==
    /\ argv \in Argvs
    /\ \E gone \in MissingSamples :
           present = (RequiredSet \ {MANIFEST}) \ gone
    /\ unsearchable \in {"", "src/generated", "examples/state_machine"}
    /\ manifest \in Manifests
    /\ \E a \in AssetSamples : header = a[1] /\ impl = a[2]
    /\ notes \in BOOLEAN
    /\ temp \in {{}, {"__pycache__", ".DS_Store"}}
    /\ HistoryInit

-----------------------------------------------------------------------------
(* Actions *)

ParseArguments ==
    /\ pc = "start"
    /\ version' = ParseArgs(argv)
    /\ pc' = "loop"
    /\ UNCHANGED <<argv, fsvars, i, failed_steps, invoked, results,
                   missing_printed, asset_reason, manifest_before, access,
                   reported, summary, raised, exitStatus, runs>>

AtStep(step_name) == pc = "loop" /\ i <= Len(steps) /\ steps[i] = step_name

\* The body of the for loop around a call of step_func() that did r.
LoopBody(step_name, r) ==
    /\ invoked' = Append(invoked, step_name)
    /\ IF r.exc # ""
       THEN /\ raised' = r.exc
            /\ pc' = "exited"
            /\ exitStatus' = 1
            /\ UNCHANGED <<i, failed_steps, results>>
       ELSE /\ failed_steps' = failed_steps_after(failed_steps, step_name, r.ret)
            /\ results' = Append(results, r.ret)
            /\ i' = LoopNext(i, r.ret)
            /\ UNCHANGED <<pc, raised, exitStatus>>
    /\ UNCHANGED <<argv, version, reported, summary, runs>>

Accesses(step_name, paths, mode) == {<<step_name, p, mode>> : p \in paths}

Tracked == {MANIFEST, HEADER, IMPL}

StepValidateStructure ==
    /\ AtStep("Validating package structure")
    /\ \E propagates \in BOOLEAN :
          LET r == validate_structure(propagates)
          IN  /\ LoopBody("Validating package structure", r)
              /\ missing_printed' = r.printed
              /\ access' = access \cup
                    Accesses("Validating package structure",
                             r.checked \cap Tracked, "check")
    /\ UNCHANGED <<fsvars, asset_reason, manifest_before>>

StepEmbedAssets ==
    /\ AtStep("Embedding web assets")
    /\ \E outcome \in CommandOutcomes :
          LET r == embed_assets(outcome)
          IN  /\ LoopBody("Embedding web assets", r)
              /\ \E out \in BuildOutputs(header, impl, outcome) :
                    /\ header' = out[1]
                    /\ impl' = out[2]
                    /\ access' = access \cup
                          Accesses("Embedding web assets",
                                   {p \in {HEADER, IMPL} : out # <<header, impl>>},
                                   "write-by-command")
    /\ UNCHANGED <<present, unsearchable, manifest, notes, temp,
                   missing_printed, asset_reason, manifest_before>>

StepValidateGeneratedAssets ==
    /\ AtStep("Validating generated assets")
    /\ \E propagates \in BOOLEAN :
          LET r == validate_generated_assets(propagates)
          IN  /\ LoopBody("Validating generated assets", r)
              /\ asset_reason' = r.printed
              /\ access' = access \cup
                    Accesses("Validating generated assets", r.checked, "check")
    /\ UNCHANGED <<fsvars, missing_printed, manifest_before>>

StepUpdateVersion ==
    /\ AtStep("Updating version")
    /\ \E writeFault \in BOOLEAN :
          LET r == update_version(version, writeFault)
          IN  /\ LoopBody("Updating version", r)
              /\ manifest_before' = manifest
              /\ manifest' = r.manifest
              /\ access' = access \cup
                    {<<"Updating version", MANIFEST, m>> : m \in r.accessed}
    /\ UNCHANGED <<present, unsearchable, header, impl, notes, temp,
                   missing_printed, asset_reason>>

StepCreateReleaseNotes ==
    /\ AtStep("Creating release notes")
    /\ \E propagates \in BOOLEAN :
          LoopBody("Creating release notes", create_release_notes(propagates))
    /\ UNCHANGED <<fsvars, missing_printed, asset_reason, manifest_before,
                   access>>

StepCleanup ==
    /\ AtStep("Cleaning up")
    /\ \E outcomes \in [1..Len(temp_files) -> CommandOutcomes] :
          LET tracked == {p \in Tracked : OnDisk(p)}
              names == temp \cup {Basename(p) : p \in tracked}
              r == cleanup_generated_files(names, outcomes)
              deleted == {p \in tracked : Basename(p) \notin r.names}
          IN  /\ LoopBody("Cleaning up", r)
              /\ temp' = r.names \cap TempNames
              /\ manifest' = IF MANIFEST \in deleted THEN Other("absent")
                                                      ELSE manifest
              /\ header' = IF HEADER \in deleted THEN NoFile ELSE header
              /\ impl' = IF IMPL \in deleted THEN NoFile ELSE impl
              /\ access' = access \cup Accesses("Cleaning up", deleted, "delete")
    /\ UNCHANGED <<present, unsearchable, notes, missing_printed,
                   asset_reason, manifest_before>>

\* After the loop: the summary and the exit.
Summary ==
    /\ pc = "loop"
    /\ i > Len(steps)
    /\ reported' = failed_steps
    /\ summary' = IF failed_steps # <<>> THEN "failed" ELSE "success"
    /\ exitStatus' = ExitStatus(failed_steps)
    /\ pc' = "exited"
    /\ UNCHANGED <<argv, fsvars, version, i, failed_steps, invoked, results,
                   missing_printed, asset_reason, manifest_before, access,
                   raised, runs>>

Next ==
    \/ ParseArguments
    \/ StepValidateStructure
    \/ StepEmbedAssets
    \/ StepValidateGeneratedAssets
    \/ StepUpdateVersion
    \/ StepCreateReleaseNotes
    \/ StepCleanup
    \/ Summary

Spec == Init /\ [][Next]_vars

-----------------------------------------------------------------------------
(* validate_structure on its own, called again and again on one file system *)

NominalManifest == Object(<<V100, OtherX>>, "rw", "author")

InitStructure ==
    /\ argv = <<Script>>
    /\ present \in SUBSET (RequiredSet \ {MANIFEST})
    /\ unsearchable = ""
    /\ manifest \in {Other("absent"), NominalManifest}
    /\ header = File(HeaderMin)
    /\ impl = File(ImplMin)
    /\ notes = TRUE
    /\ temp = {}
    /\ HistoryInit

CallValidateStructure ==
    /\ Len(runs) < MaxRuns
    /\ \E propagates \in BOOLEAN :
          LET r == validate_structure(propagates)
          IN  runs' = Append(runs, [exc |-> r.exc, ret |-> r.ret,
                                    printed |-> r.printed])
    /\ UNCHANGED <<argv, fsvars, pc, version, i, failed_steps, invoked,
                   results, missing_printed, asset_reason, manifest_before,
                   access, reported, summary, raised, exitStatus>>

NextStructure == CallValidateStructure

SpecStructure == InitStructure /\ [][NextStructure]_vars

-----------------------------------------------------------------------------
(* validate_generated_assets on its own *)

HeaderSizes == {File(n) : n \in 0..MaxHeaderSize} \cup {NoFile}
ImplSizes == {File(n) : n \in 0..MaxImplSize} \cup {NoFile}

AssetInputs ==
    (HeaderSizes \X {NoFile, File(0), File(ImplMin - 1), File(ImplMin),
                     File(MaxImplSize)})
    \cup
    ({NoFile, File(0), File(HeaderMin - 1), File(HeaderMin),
      File(MaxHeaderSize)} \X ImplSizes)

InitAssets ==
    /\ argv = <<Script>>
    /\ present = RequiredSet \ {MANIFEST}
    /\ unsearchable \in {"", "src/generated"}
    /\ manifest = NominalManifest
    /\ \E a \in AssetInputs : header = a[1] /\ impl = a[2]
    /\ notes = TRUE
    /\ temp = {}
    /\ HistoryInit

CallValidateGeneratedAssets ==
    /\ Len(runs) < MaxRuns
    /\ \E propagates \in BOOLEAN :
          LET r == validate_generated_assets(propagates)
          IN  runs' = Append(runs, [exc |-> r.exc, ret |-> r.ret,
                                    printed |-> r.printed])
    /\ UNCHANGED <<argv, fsvars, pc, version, i, failed_steps, invoked,
                   results, missing_printed, asset_reason, manifest_before,
                   access, reported, summary, raised, exitStatus>>

NextAssets == CallValidateGeneratedAssets

SpecAssets == InitAssets /\ [][NextAssets]_vars

-----------------------------------------------------------------------------
(* Properties *)

IsPrefix(s, t) == Len(s) <= Len(t) /\ \A k \in 1..Len(s) : s[k] = t[k]

StepOrder ==
    << "Validating package structure",
       "Embedding web assets",
       "Validating generated assets",
       "Updating version",
       "Creating release notes",
       "Cleaning up" >>

\* The names, in pipeline order, of the steps among the first n that
\* returned false.
RECURSIVE FalseSteps(_)
FalseSteps(n) ==
    IF n = 0 THEN <<>>
    ELSE IF results[n] THEN FalseSteps(n - 1)
         ELSE Append(FalseSteps(n - 1), StepOrder[n])

\* No exception left a step function.
EveryStepReturned == raised = ""

C2_ExitStatusIffStepResults ==
    pc = "exited" =>
        /\ exitStatus = 0 <=>
              (Len(results) = Len(StepOrder) /\ \A k \in 1..Len(results) : results[k])
        /\ exitStatus = 1 <=> (\E k \in 1..Len(results) : ~results[k])

\* What does hold of the exit status: in a run that no exception ended it is
\* 0 exactly when all six steps returned true and 1 otherwise.
ExitStatusWhenEveryStepReturned ==
    (pc = "exited" /\ EveryStepReturned) =>
        /\ Len(results) = Len(StepOrder)
        /\ exitStatus = 0 <=> (\A k \in 1..Len(results) : results[k])
        /\ exitStatus = 1 <=> (\E k \in 1..Len(results) : ~results[k])
        /\ summary = (IF exitStatus = 0 THEN "success" ELSE "failed")

\* C3: at the end of every run the failed-step list that was reported holds
\* exactly the names of the steps that returned false, once each, in
\* pipeline order.
C3_ReportedFailedSteps ==
    pc = "exited" => reported = FalseSteps(Len(results))

\* What does hold of the failed-step list: main's failed_steps is at every
\* moment the false steps so far, and a run that no exception ended reports
\* exactly that list.
FailedStepsWhenEveryStepReturned ==
    /\ failed_steps = FalseSteps(Len(results))
    /\ (pc = "exited" /\ EveryStepReturned => reported = failed_steps)

\* The command line holds --version followed by a value.
VersionSupplied == Len(argv) > 2 /\ argv[2] = "--version"

UpdaterDone == Len(results) >= 4

\* library.json was a JSON object that the user may read and write, and
\* the write itself went through.
ManifestUsable ==
    /\ manifest_before.kind = "object"
    /\ manifest_before.mode = "rw"
    /\ manifest.kind # "partial"

\* The version key holds v and every other key holds what it held.
VersionSetTo(v) ==
    LET old == json_load(manifest_before.pairs)
        new == json_load(manifest.pairs)
    IN  /\ manifest.kind = "object"
        /\ DictGet(new, "version") = v
        /\ DictKeys(new) = DictKeys(old) \cup {"version"}
        /\ \A key \in DictKeys(old) \ {"version"} :
              DictGet(new, key) = DictGet(old, key)

\* C4 as stated: for every version string given after --version and every
\* readable, writable manifest that is a JSON object, after the updater step
\* the version key is that string, every other key is as before, and the
\* step reported success.
C4_AnySuppliedVersionIsWritten ==
    (UpdaterDone /\ VersionSupplied /\ ManifestUsable) =>
        (results[4] /\ VersionSetTo(argv[3]))

\* C4 amended: the same for every non-empty version string given after
\* --version (an empty one is treated as no version at all).
C4_NonEmptyVersionIsWritten ==
    (UpdaterDone /\ VersionSupplied /\ argv[3] # "" /\ ManifestUsable) =>
        (results[4] /\ VersionSetTo(argv[3]))

\* The manifest {"version": "1.0.0", "other": "x"} updated with 1.2.0.
C4_Witness ==
    /\ UpdaterDone
    /\ argv = <<Script, "--version", "1.2.0">>
    /\ manifest_before = Object(<<V100, OtherX>>, "rw", "author")
    /\ manifest = Object(<<<<"version", "1.2.0">>, OtherX>>, "rw", "indent4")

\* No version argument: no arguments, a first argument other than
\* --version, or --version with nothing after it.
NoVersionArgument == Len(argv) = 1 \/ argv[2] # "--version" \/ Len(argv) = 2

\* C5: with no version argument the updater step succeeds without reading or
\* writing library.json, which is the same after the step as before it,
\* whether or not it exists or is well formed.
C5_NoVersionNoOp ==
    (UpdaterDone /\ NoVersionArgument) =>
        /\ results[4]
        /\ manifest = manifest_before
        /\ ~\E a \in access : a[1] = "Updating version"

\* The updater ran with a value after a flag that is not --version, on a
\* malformed manifest.
C5_Witness ==
    /\ UpdaterDone
    /\ argv = <<Script, "-v", "1.2.0">>
    /\ manifest.kind = "malformed"

\* C8: no fault leaves a step: every step function ends by returning a
\* boolean, so every run reaches the summary with all six steps run and
\* exits with the status the summary gives.
C8_NoFaultLeavesAStep ==
    /\ raised = ""
    /\ (pc = "exited" => summary # "none" /\ Len(results) = Len(StepOrder))

\* C10: when the updater step reports failure, library.json is what it was
\* before the step.
C10_FailedUpdateLeavesManifest ==
    (UpdaterDone /\ ~results[4]) => manifest = manifest_before

\* The process can see the file: it is there and os.stat of it succeeds.
Visible(p) == p \notin Under(unsearchable) /\ OnDisk(p)

AssetsMeetThresholds ==
    /\ Visible(HEADER)
    /\ Visible(IMPL)
    /\ header.size >= 1000
    /\ impl.size >= 500

FirstAssetReason ==
    IF ~Visible(HEADER) THEN "Missing web_assets.h"
    ELSE IF ~Visible(IMPL) THEN "Missing web_assets.cpp"
    ELSE IF header.size < 1000 THEN "web_assets.h too small"
    ELSE "web_assets.cpp too small"

\* C6: validate_generated_assets returns true exactly when both generated
\* files exist (as far as the process can tell), web_assets.h has at least
\* 1000 bytes and web_assets.cpp at least 500; when it returns false it has
\* printed one reason, the first that applies of: web_assets.h absent,
\* web_assets.cpp absent, web_assets.h too small, web_assets.cpp too small.
C6_AssetValidator ==
    \A k \in 1..Len(runs) :
        /\ (runs[k].exc = "" /\ runs[k].ret) <=> AssetsMeetThresholds
        /\ (runs[k].exc = "" /\ ~runs[k].ret) => runs[k].printed = FirstAssetReason
        /\ runs[k].ret => runs[k].printed = "Generated assets validated"

\* The validator refused a header of 999 bytes beside an implementation
\* file of 500 bytes.
C6_Witness ==
    /\ Len(runs) >= 1
    /\ unsearchable = ""
    /\ header = File(999)
    /\ impl = File(500)
    /\ ~runs[1].ret
    /\ runs[1].printed = "web_assets.h too small"

AbsentRequired == {p \in RequiredSet : ~OnDisk(p)}

StructureRunsCorrect ==
    /\ Cardinality(RequiredSet) = 15
    /\ \A k \in 1..Len(runs) :
          /\ runs[k].exc = ""
          /\ runs[k].ret <=> AbsentRequired = {}
          /\ Range(runs[k].printed) = AbsentRequired
          /\ Len(runs[k].printed) = Cardinality(AbsentRequired)
    /\ \A j, k \in 1..Len(runs) : runs[j] = runs[k]

StepsTouching(paths) == {a[1] : a \in {b \in access : b[2] \in paths /\ b[3] # "write-by-command"}}

\* C9 as stated: over a whole run, library.json is accessed by exactly one
\* step and the two generated files are accessed by exactly one step (here
\* counting only what the script itself does to them, not what the asset
\* generation command does).
C9_EachFileTouchedByOneStep ==
    (pc = "exited" /\ EveryStepReturned) =>
        /\ Cardinality(StepsTouching({MANIFEST})) = 1
        /\ Cardinality(StepsTouching({HEADER, IMPL})) = 1

\* C9 amended: library.json is checked for existence by the structural
\* validator in every run and is read and written only by the version
\* updater, and only when a non-empty version was supplied, so one or two
\* steps access it; the generated files are checked only by the asset
\* validator and written only by the command of the asset build step; no
\* step deletes any of them.
C9_ManifestTwoStepsAssetsOneChecker ==
    /\ \A a \in access :
          \/ a = <<"Validating package structure", MANIFEST, "check">>
          \/ /\ a[1] = "Updating version"
             /\ a[2] = MANIFEST
             /\ a[3] \in {"read", "write"}
             /\ ~Falsy(version)
          \/ /\ a[1] = "Validating generated assets"
             /\ a[2] \in {HEADER, IMPL}
             /\ a[3] = "check"
          \/ /\ a[1] = "Embedding web assets"
             /\ a[2] \in {HEADER, IMPL}
             /\ a[3] = "write-by-command"
    /\ (Len(results) >= 1 =>
            <<"Validating package structure", MANIFEST, "check">> \in access)
    /\ (Len(results) >= 4 /\ ~Falsy(version) =>
            <<"Updating version", MANIFEST, "read">> \in access)
    /\ (Len(results) >= 3 =>
            <<"Validating generated assets", HEADER, "check">> \in access)

\* A complete run in which two steps accessed library.json.
C9_Witness ==
    /\ pc = "exited"
    /\ EveryStepReturned
    /\ StepsTouching({MANIFEST}) = {"Validating package structure", "Updating version"}
    /\ StepsTouching({HEADER, IMPL}) = {"Validating generated assets"}
    /\ <<"Embedding web assets", HEADER, "write-by-command">> \in access

====
